---- MODULE Spec2Model ----
(***************************************************************************)
(* Claim validators of package jwt (validators.go).                        *)
(*                                                                         *)
(* A validator factory captures its configuration and returns a            *)
(* ValidatorFunc, a closure from a Payload pointer to an error.  The      *)
(* model keeps the closures in `units`, the payloads they are handed (by   *)
(* pointer) in `heap`, one invocation frame per caller in `frames`, and    *)
(* the state of a fail-fast run over a list of closures in `pipe`.         *)
(*                                                                         *)
(* int64 is scaled down to IntBits bits, and the standard library's        *)
(* nanoseconds per second and epoch offset are scaled with it, so that     *)
(* every value of the type, its extremes included, is enumerated.          *)
(***************************************************************************)
EXTENDS Integers, Sequences, FiniteSets, TLC

VARIABLES units, heap, frames, pipe

vars == <<units, heap, frames, pipe>>

----------------------------------------------------------------------------
(* Bounds *)

IntBits == 3            \* width standing for the 64 bits of int64
NanosPerSec == 3        \* sub-second positions standing for 1e9 nanoseconds
unixToInternal == 1     \* seconds from year 1 to 1970, scaled (time.Unix)
MaxAudLen == 2          \* longest Audience sequence enumerated
MaxPipeLen == 3         \* longest list of closures run over one payload

MinInt64 == -(2^(IntBits - 1))
MaxInt64 == 2^(IntBits - 1) - 1
Int64 == MinInt64..MaxInt64

\* int64 arithmetic wraps around
wrap(x) == ((x - MinInt64) % (2^IntBits)) + MinInt64

----------------------------------------------------------------------------
(* time.Time as the validators use it: seconds since year 1 and the        *)
(* nanoseconds within that second, without a monotonic reading.            *)

Time == [sec : Int64, nsec : 0..(NanosPerSec - 1)]

\* time.Unix(sec, 0): Time{wall: nsec, ext: sec + unixToInternal}
Unix(sec, nsec) == [sec |-> wrap(sec + unixToInternal), nsec |-> nsec]

\* t.After(u): ts > us || ts == us && t.nsec() > u.nsec()
After(t, u) == t.sec > u.sec \/ (t.sec = u.sec /\ t.nsec > u.nsec)

\* t.Before(u): ts < us || ts == us && t.nsec() < u.nsec()
Before(t, u) == t.sec < u.sec \/ (t.sec = u.sec /\ t.nsec < u.nsec)

----------------------------------------------------------------------------
(* Error values *)

nil == "nil"
ErrAudValidation == "jwt: aud claim is invalid"
ErrExpValidation == "jwt: exp claim is invalid"
ErrIatValidation == "jwt: iat claim is invalid"
ErrIssValidation == "jwt: iss claim is invalid"
ErrJtiValidation == "jwt: jti claim is invalid"
ErrNbfValidation == "jwt: nbf claim is invalid"
ErrSubValidation == "jwt: sub claim is invalid"

----------------------------------------------------------------------------
(* Payload and Audience *)

Strs == {"", "a", "A"}
AudStrs == {"a", "A", "b"}

RECURSIVE SeqsUpTo(_, _)
SeqsUpTo(S, n) ==
    IF n = 0 THEN {<<>>}
    ELSE LET shorter == SeqsUpTo(S, n - 1)
         IN shorter \cup {Append(s, x) : s \in {q \in shorter : Len(q) = n - 1}, x \in S}

Audience == SeqsUpTo(AudStrs, MaxAudLen)

ZeroPayload ==
    [Issuer |-> "", Subject |-> "", Audience |-> <<>>, ExpirationTime |-> 0,
     IssuedAt |-> 0, NotBefore |-> 0, JWTID |-> ""]

\* payloads that differ from the zero value in at most one field
Payloads ==
    {[ZeroPayload EXCEPT !.Issuer = s] : s \in Strs}
    \cup {[ZeroPayload EXCEPT !.Subject = s] : s \in Strs}
    \cup {[ZeroPayload EXCEPT !.JWTID = s] : s \in Strs}
    \cup {[ZeroPayload EXCEPT !.Audience = a] : a \in Audience}
    \cup {[ZeroPayload EXCEPT !.ExpirationTime = e] : e \in Int64}
    \cup {[ZeroPayload EXCEPT !.IssuedAt = i] : i \in Int64}
    \cup {[ZeroPayload EXCEPT !.NotBefore = n] : n \in Int64}

----------------------------------------------------------------------------
(* The seven validators: the closure body applied to configuration and p   *)

\* for _, clientAud := range p.Audience { if clientAud == serverAud ... }
RECURSIVE InnerLoop(_, _, _)
InnerLoop(serverAud, clientAuds, j) ==
    IF j > Len(clientAuds) THEN FALSE
    ELSE IF clientAuds[j] = serverAud THEN TRUE
    ELSE InnerLoop(serverAud, clientAuds, j + 1)

\* for _, serverAud := range aud { ... }; return ErrAudValidation
RECURSIVE OuterLoop(_, _, _)
OuterLoop(aud, clientAuds, i) ==
    IF i > Len(aud) THEN ErrAudValidation
    ELSE IF InnerLoop(aud[i], clientAuds, 1) THEN nil
    ELSE OuterLoop(aud, clientAuds, i + 1)

\* variant: only the first whitelist entry is looked up
AudienceValidatorFirstOnly(aud, p) ==
    IF Len(aud) > 0 /\ InnerLoop(aud[1], p.Audience, 1) THEN nil ELSE ErrAudValidation

AudienceValidator(aud, p) == OuterLoop(aud, p.Audience, 1)

ExpirationTimeValidator(now, validateZero, p) ==
    LET expint == p.ExpirationTime
    IN IF ~validateZero /\ expint = 0 THEN nil
       ELSE IF After(now, Unix(expint, 0)) THEN ErrExpValidation
       ELSE nil

\* variant: the claim's instant carries a sub-second part
IssuedAtValidatorSubSecond(now, p) ==
    IF Before(now, Unix(p.IssuedAt, 1)) THEN ErrIatValidation ELSE nil

IssuedAtValidator(now, p) ==
    IF Before(now, Unix(p.IssuedAt, 0)) THEN ErrIatValidation ELSE nil

IssuerValidator(iss, p) ==
    IF p.Issuer # iss THEN ErrIssValidation ELSE nil

\* variant: the error of the neighbouring validator is returned
JWTIDValidatorWrongErr(jti, p) ==
    IF p.JWTID # jti THEN ErrIssValidation ELSE nil

JWTIDValidator(jti, p) ==
    IF p.JWTID # jti THEN ErrJtiValidation ELSE nil

NotBeforeValidator(now, p) ==
    IF Before(now, Unix(p.NotBefore, 0)) THEN ErrNbfValidation ELSE nil

\* variant: an empty expected value is not compared
SubjectValidatorSkipEmpty(sub, p) ==
    IF sub # "" /\ p.Subject # sub THEN ErrSubValidation ELSE nil

SubjectValidator(sub, p) ==
    IF p.Subject # sub THEN ErrSubValidation ELSE nil

----------------------------------------------------------------------------
(* A constructed closure: its kind and the configuration it captured.      *)
(* Fields a kind does not capture hold their zero value.                   *)

ZeroTime == [sec |-> 0, nsec |-> 0]

ZeroUnit ==
    [kind |-> "", aud |-> <<>>, now |-> ZeroTime, validateZero |-> FALSE, str |-> ""]

Units ==
    {[ZeroUnit EXCEPT !.kind = "aud", !.aud = a] : a \in Audience}
    \cup {[ZeroUnit EXCEPT !.kind = "exp", !.now = t, !.validateZero = z] :
            t \in Time, z \in BOOLEAN}
    \cup {[ZeroUnit EXCEPT !.kind = "iat", !.now = t] : t \in Time}
    \cup {[ZeroUnit EXCEPT !.kind = "nbf", !.now = t] : t \in Time}
    \cup {[ZeroUnit EXCEPT !.kind = k, !.str = s] : k \in {"iss", "jti", "sub"}, s \in Strs}

\* fn(p) for a ValidatorFunc fn
Apply(u, p) ==
    CASE u.kind = "aud" -> AudienceValidator(u.aud, p)
      [] u.kind = "exp" -> ExpirationTimeValidator(u.now, u.validateZero, p)
      [] u.kind = "iat" -> IssuedAtValidator(u.now, p)
      [] u.kind = "iss" -> IssuerValidator(u.str, p)
      [] u.kind = "jti" -> JWTIDValidator(u.str, p)
      [] u.kind = "nbf" -> NotBeforeValidator(u.now, p)
      [] u.kind = "sub" -> SubjectValidator(u.str, p)

----------------------------------------------------------------------------
(* Invocation frames and the run over a list of closures *)

\* pc: idle, body (entered), loop (in the aud loops), loaded, done;
\* i, j: the positions of the two range loops; local: the payload as read
IdleFrame ==
    [pc |-> "idle", fn |-> 0, p |-> 0, i |-> 0, j |-> 0, local |-> ZeroPayload, ret |-> nil]

\* funcs: the closures in the caller's order; idx: the next one to run;
\* executed: the positions of funcs that were invoked, in order
IdlePipe ==
    [pc |-> "idle", funcs |-> <<>>, p |-> 0, idx |-> 0, ret |-> nil, executed |-> <<>>]

----------------------------------------------------------------------------
(* One caller, one closure, one payload: the closure is invoked whole.      *)

Init ==
    /\ units \in {<<u>> : u \in Units}
    /\ heap \in {<<p>> : p \in Payloads}
    /\ frames = [c \in {1} |-> IdleFrame]
    /\ pipe = IdlePipe

\* variant: the invocation clears the payload's Audience
InvokeClearing(c, f, ptr) ==
    /\ frames[c].pc = "idle"
    /\ frames' = [frames EXCEPT ![c] =
           [IdleFrame EXCEPT !.pc = "done", !.fn = f, !.p = ptr,
                             !.ret = Apply(units[f], heap[ptr])]]
    /\ heap' = [heap EXCEPT ![ptr].Audience = <<>>]
    /\ UNCHANGED <<units, pipe>>

\* err := fn(p)
Invoke(c, f, ptr) ==
    /\ frames[c].pc = "idle"
    /\ frames' = [frames EXCEPT ![c] =
           [IdleFrame EXCEPT !.pc = "done", !.fn = f, !.p = ptr,
                             !.ret = Apply(units[f], heap[ptr])]]
    /\ UNCHANGED <<units, heap, pipe>>

\* the caller takes the result and is free to call again
Return(c) ==
    /\ frames[c].pc = "done"
    /\ frames' = [frames EXCEPT ![c] = IdleFrame]
    /\ UNCHANGED <<units, heap, pipe>>

Next ==
    \/ \E c \in DOMAIN frames, f \in DOMAIN units, ptr \in DOMAIN heap : Invoke(c, f, ptr)
    \/ \E c \in DOMAIN frames : Return(c)

Spec == Init /\ [][Next]_vars

----------------------------------------------------------------------------
(* A list of closures applied to one payload, in order, stopping at the    *)
(* first error.                                                            *)

PipeUnits ==
    {[ZeroUnit EXCEPT !.kind = "iss", !.str = "a"],
     [ZeroUnit EXCEPT !.kind = "sub", !.str = "a"],
     [ZeroUnit EXCEPT !.kind = "aud", !.aud = <<"a">>],
     [ZeroUnit EXCEPT !.kind = "exp", !.validateZero = TRUE],
     [ZeroUnit EXCEPT !.kind = "iat"]}

PipePayloads ==
    {[ZeroPayload EXCEPT !.Issuer = i, !.Subject = s, !.Audience = a,
                         !.ExpirationTime = e, !.IssuedAt = t] :
        i \in {"a", "b"}, s \in {"a", "b"}, a \in {<<"a">>, <<"b">>},
        e \in {-2, 0}, t \in {-2, 2}}

NumPipeUnits == 2

InitPipeline ==
    /\ units \in [1..NumPipeUnits -> PipeUnits]
    /\ heap \in {<<p>> : p \in PipePayloads}
    /\ frames = [c \in {1} |-> IdleFrame]
    /\ pipe = IdlePipe

\* the caller hands over the payload and the closures in its order
PipeStart(fs, ptr) ==
    /\ pipe.pc = "idle"
    /\ pipe' = [IdlePipe EXCEPT !.pc = "run", !.funcs = fs, !.p = ptr, !.idx = 1]
    /\ UNCHANGED <<units, heap, frames>>

\* variant: every closure is run and the last error is kept
PipeStepFailAll ==
    /\ pipe.pc = "run"
    /\ pipe.idx <= Len(pipe.funcs)
    /\ LET err == Apply(units[pipe.funcs[pipe.idx]], heap[pipe.p])
       IN pipe' = [pipe EXCEPT !.executed = Append(@, pipe.idx),
                               !.idx = @ + 1,
                               !.ret = IF err # nil THEN err ELSE @]
    /\ UNCHANGED <<units, heap, frames>>

\* run the next closure; its error, if any, is the result
PipeStep ==
    /\ pipe.pc = "run"
    /\ pipe.idx <= Len(pipe.funcs)
    /\ LET err == Apply(units[pipe.funcs[pipe.idx]], heap[pipe.p])
       IN \/ /\ err # nil
             /\ pipe' = [pipe EXCEPT !.executed = Append(@, pipe.idx),
                                     !.ret = err, !.pc = "done"]
          \/ /\ err = nil
             /\ pipe' = [pipe EXCEPT !.executed = Append(@, pipe.idx),
                                     !.idx = @ + 1]
    /\ UNCHANGED <<units, heap, frames>>

\* every closure passed
PipeFinish ==
    /\ pipe.pc = "run"
    /\ pipe.idx > Len(pipe.funcs)
    /\ pipe' = [pipe EXCEPT !.pc = "done"]
    /\ UNCHANGED <<units, heap, frames>>

PipeReturn ==
    /\ pipe.pc = "done"
    /\ pipe' = IdlePipe
    /\ UNCHANGED <<units, heap, frames>>

NextPipeline ==
    \/ \E fs \in SeqsUpTo(DOMAIN units, MaxPipeLen), ptr \in DOMAIN heap : PipeStart(fs, ptr)
    \/ PipeStep
    \/ PipeFinish
    \/ PipeReturn

SpecPipeline == InitPipeline /\ [][NextPipeline]_vars

----------------------------------------------------------------------------
(* Several callers invoking the constructed closures at once.  A caller's  *)
(* invocation is split at its reads of the payload: the aud closure reads  *)
(* it at every loop test, the others read their field once.                *)

NumCallers == 2

ConcUnits ==
    {[ZeroUnit EXCEPT !.kind = "aud", !.aud = <<"a", "b">>],
     [ZeroUnit EXCEPT !.kind = "exp", !.now = [sec |-> 2, nsec |-> 0]],
     [ZeroUnit EXCEPT !.kind = "iss", !.str = "a"]}

ConcPayloads ==
    {[ZeroPayload EXCEPT !.Issuer = "a", !.Audience = <<"A", "b">>, !.ExpirationTime = 2],
     [ZeroPayload EXCEPT !.Issuer = "A", !.Audience = <<"A">>, !.ExpirationTime = -1]}

InitConc ==
    /\ units \in [1..2 -> ConcUnits]
    /\ heap \in [1..2 -> ConcPayloads]
    /\ frames = [c \in 1..NumCallers |-> IdleFrame]
    /\ pipe = IdlePipe

\* fn(p) is entered
Enter(c, f, ptr) ==
    /\ frames[c].pc = "idle"
    /\ frames' = [frames EXCEPT ![c] =
           [IdleFrame EXCEPT !.fn = f, !.p = ptr, !.i = 1, !.j = 1,
                             !.pc = IF units[f].kind = "aud" THEN "loop" ELSE "body"]]
    /\ UNCHANGED <<units, heap, pipe>>

\* one test of the nested range loops of the aud closure
AudStep(c) ==
    /\ frames[c].pc = "loop"
    /\ LET aud == units[frames[c].fn].aud
           clientAuds == heap[frames[c].p].Audience
           i == frames[c].i
           j == frames[c].j
       IN \/ /\ i > Len(aud)
             /\ frames' = [frames EXCEPT ![c].ret = ErrAudValidation, ![c].pc = "done"]
          \/ /\ i <= Len(aud)
             /\ j > Len(clientAuds)
             /\ frames' = [frames EXCEPT ![c].i = i + 1, ![c].j = 1]
          \/ /\ i <= Len(aud)
             /\ j <= Len(clientAuds)
             /\ clientAuds[j] = aud[i]
             /\ frames' = [frames EXCEPT ![c].ret = nil, ![c].pc = "done"]
          \/ /\ i <= Len(aud)
             /\ j <= Len(clientAuds)
             /\ clientAuds[j] # aud[i]
             /\ frames' = [frames EXCEPT ![c].j = j + 1]
    /\ UNCHANGED <<units, heap, pipe>>

\* variant: the payload pointer is kept in one place shared by all calls,
\* here the frame of the lowest-numbered caller with a call in flight
LoadSharedPointer(c) ==
    /\ frames[c].pc = "body"
    /\ LET oldest == CHOOSE d \in DOMAIN frames :
                         /\ frames[d].pc # "idle"
                         /\ \A x \in DOMAIN frames : frames[x].pc # "idle" => d <= x
       IN frames' = [frames EXCEPT ![c].local = heap[frames[oldest].p],
                                   ![c].pc = "loaded"]
    /\ UNCHANGED <<units, heap, pipe>>

\* the closure reads the payload behind its argument
Load(c) ==
    /\ frames[c].pc = "body"
    /\ frames' = [frames EXCEPT ![c].local = heap[frames[c].p], ![c].pc = "loaded"]
    /\ UNCHANGED <<units, heap, pipe>>

\* the closure compares what it read with its configuration and returns
Compare(c) ==
    /\ frames[c].pc = "loaded"
    /\ frames' = [frames EXCEPT ![c].ret = Apply(units[frames[c].fn], frames[c].local),
                                ![c].pc = "done"]
    /\ UNCHANGED <<units, heap, pipe>>

NextConc ==
    \/ \E c \in DOMAIN frames, f \in DOMAIN units, ptr \in DOMAIN heap : Enter(c, f, ptr)
    \/ \E c \in DOMAIN frames : AudStep(c)
    \/ \E c \in DOMAIN frames : Load(c)
    \/ \E c \in DOMAIN frames : Compare(c)
    \/ \E c \in DOMAIN frames : Return(c)

SpecConc == InitConc /\ [][NextConc]_vars

----------------------------------------------------------------------------
(* Properties of a single invocation *)

\* a returned invocation of a closure of kind k
Returned(c, k) == frames[c].pc = "done" /\ units[frames[c].fn].kind = k

UnitOf(c) == units[frames[c].fn]
PayloadOf(c) == heap[frames[c].p]

\* the elements of a sequence
Range(s) == {s[k] : k \in DOMAIN s}

\* t is strictly after / before the instant e seconds from the Unix epoch
AfterInstant(t, e) ==
    t.sec > e + unixToInternal \/ (t.sec = e + unixToInternal /\ t.nsec > 0)
BeforeInstant(t, e) == t.sec < e + unixToInternal

\* C1: the exp closure returns ErrExpValidation iff not (validateZero is
\* false and e = 0) and the reference time is strictly after the instant e
\* seconds from the epoch; otherwise it returns success.
C1_ExpIffAfter ==
    \A c \in DOMAIN frames :
        Returned(c, "exp") =>
            LET u == UnitOf(c)
                e == PayloadOf(c).ExpirationTime
                fails == ~(~u.validateZero /\ e = 0) /\ AfterInstant(u.now, e)
            IN frames[c].ret = (IF fails THEN ErrExpValidation ELSE nil)

\* C2: the aud closure succeeds iff some string occurs in both the whitelist
\* and the payload's Audience (exact equality), and returns ErrAudValidation
\* otherwise; only the sets of elements matter, not their order.
C2_AudIffIntersect ==
    \A c \in DOMAIN frames :
        Returned(c, "aud") =>
            LET common == Range(UnitOf(c).aud) \cap Range(PayloadOf(c).Audience)
            IN frames[c].ret = (IF common # {} THEN nil ELSE ErrAudValidation)

C2_Witness ==
    /\ Returned(1, "aud")
    /\ UnitOf(1).aud = <<"a", "b">>
    /\ PayloadOf(1).Audience = <<"A", "b">>
    /\ frames[1].ret = nil

\* C3: the iat closure returns ErrIatValidation iff the reference time is
\* strictly before the instant i seconds from the epoch, i = 0 included.
C3_IatIffBefore ==
    \A c \in DOMAIN frames :
        Returned(c, "iat") =>
            frames[c].ret = (IF BeforeInstant(UnitOf(c).now, PayloadOf(c).IssuedAt)
                             THEN ErrIatValidation ELSE nil)

\* C4: the nbf closure returns ErrNbfValidation iff the reference time is
\* strictly before the instant n seconds from the epoch, n = 0 included.
C4_NbfIffBefore ==
    \A c \in DOMAIN frames :
        Returned(c, "nbf") =>
            frames[c].ret = (IF BeforeInstant(UnitOf(c).now, PayloadOf(c).NotBefore)
                             THEN ErrNbfValidation ELSE nil)

\* C5: the iss, sub and jti closures succeed iff the payload's field equals
\* the expected string exactly, and return their own error otherwise; an
\* empty expected string matches only an empty field.
C5_ExactMatch ==
    \A c \in DOMAIN frames :
        /\ Returned(c, "iss") =>
             frames[c].ret = (IF PayloadOf(c).Issuer = UnitOf(c).str
                              THEN nil ELSE ErrIssValidation)
        /\ Returned(c, "sub") =>
             frames[c].ret = (IF PayloadOf(c).Subject = UnitOf(c).str
                              THEN nil ELSE ErrSubValidation)
        /\ Returned(c, "jti") =>
             frames[c].ret = (IF PayloadOf(c).JWTID = UnitOf(c).str
                              THEN nil ELSE ErrJtiValidation)

C5_Witness ==
    /\ Returned(1, "sub")
    /\ UnitOf(1).str = ""
    /\ PayloadOf(1).Subject = "a"
    /\ frames[1].ret = ErrSubValidation

OwnErr ==
    [k \in {"aud", "exp", "iat", "iss", "jti", "nbf", "sub"} |->
        CASE k = "aud" -> "jwt: aud claim is invalid"
          [] k = "exp" -> "jwt: exp claim is invalid"
          [] k = "iat" -> "jwt: iat claim is invalid"
          [] k = "iss" -> "jwt: iss claim is invalid"
          [] k = "jti" -> "jwt: jti claim is invalid"
          [] k = "nbf" -> "jwt: nbf claim is invalid"
          [] k = "sub" -> "jwt: sub claim is invalid"]

\* C6: a closure returns success or the error of its own claim kind, never
\* another kind's error, and the seven errors are pairwise distinct.
C6_OwnErrorOnly ==
    /\ \A c \in DOMAIN frames :
          frames[c].pc = "done" =>
              frames[c].ret \in {nil, OwnErr[UnitOf(c).kind]}
    /\ Cardinality({ErrAudValidation, ErrExpValidation, ErrIatValidation,
                    ErrIssValidation, ErrJtiValidation, ErrNbfValidation,
                    ErrSubValidation, nil}) = 8

C6_Witness ==
    /\ Returned(1, "jti")
    /\ frames[1].ret = ErrJtiValidation

\* C9: an invocation, whether it succeeds or fails, leaves every field of
\* the payload and the closure's captured configuration unchanged.
C9_NoWrites == [][units' = units /\ heap' = heap]_vars

C9_Witness ==
    /\ Returned(1, "aud")
    /\ PayloadOf(1).Audience # <<>>
    /\ frames[1].ret = ErrAudValidation

\* the closure of caller c's frame with another reference time
ResultAt(c, t) == Apply([UnitOf(c) EXCEPT !.now = t], PayloadOf(c))

\* C10 as stated: two reference times within the same whole second give the
\* same result from the exp, iat and nbf closures.
C10_SameSecondSameResult ==
    \A c \in DOMAIN frames :
        (Returned(c, "exp") \/ Returned(c, "iat") \/ Returned(c, "nbf")) =>
            \A t \in Time :
                t.sec = UnitOf(c).now.sec => ResultAt(c, t) = frames[c].ret

\* C10 amended: the iat and nbf closures give the same result for any two
\* reference times within the same whole second; the exp closure does so
\* for two such times that are both on the whole second or both past it.
C10_Granularity ==
    \A c \in DOMAIN frames :
        /\ (Returned(c, "iat") \/ Returned(c, "nbf")) =>
              \A t \in Time :
                  t.sec = UnitOf(c).now.sec => ResultAt(c, t) = frames[c].ret
        /\ Returned(c, "exp") =>
              \A t \in Time :
                  (t.sec = UnitOf(c).now.sec /\ (t.nsec = 0) = (UnitOf(c).now.nsec = 0))
                      => ResultAt(c, t) = frames[c].ret

C10_Witness ==
    /\ Returned(1, "exp")
    /\ PayloadOf(1).ExpirationTime = 1
    /\ UnitOf(1).now = Unix(1, 1)
    /\ frames[1].ret = ErrExpValidation
    /\ ResultAt(1, [UnitOf(1).now EXCEPT !.nsec = 0]) = nil

----------------------------------------------------------------------------
(* Properties of a run over a list of closures *)

\* the positions of pipe.funcs whose closure fails on the payload
Failing == {k \in 1..Len(pipe.funcs) : Apply(units[pipe.funcs[k]], heap[pipe.p]) # nil}

First(S) == CHOOSE k \in S : \A m \in S : k <= m

UpTo(n) == [k \in 1..n |-> k]

\* C7: the closures run in the given order; the result is the error of the
\* first one that fails, none after it is run, and the result is success
\* iff every closure passes (also for an empty list).
C7_FailFast ==
    /\ pipe.pc = "run" => pipe.executed = UpTo(pipe.idx - 1)
    /\ pipe.pc = "done" =>
          IF Failing = {}
          THEN pipe.ret = nil /\ pipe.executed = UpTo(Len(pipe.funcs))
          ELSE /\ pipe.ret = Apply(units[pipe.funcs[First(Failing)]], heap[pipe.p])
               /\ pipe.executed = UpTo(First(Failing))

C7_Witness ==
    /\ pipe.pc = "done"
    /\ Len(pipe.funcs) = 3
    /\ Failing = {2, 3}
    /\ units[pipe.funcs[1]].kind = "iss"
    /\ units[pipe.funcs[2]].kind = "sub"
    /\ units[pipe.funcs[3]].kind = "sub"
    /\ pipe.ret = ErrSubValidation
    /\ pipe.executed = <<1, 2>>

----------------------------------------------------------------------------
(* Properties of concurrent invocations *)

\* C8: under any interleaving of invocations, each invocation returns what
\* its closure returns on its payload when invoked alone.
C8_SameAsAlone ==
    \A c \in DOMAIN frames :
        frames[c].pc = "done" => frames[c].ret = Apply(UnitOf(c), PayloadOf(c))

C8_Witness ==
    /\ frames[1].pc = "done"
    /\ frames[2].pc = "done"
    /\ frames[1].fn = frames[2].fn
    /\ frames[1].p # frames[2].p
    /\ frames[1].ret # frames[2].ret

====
